---- MODULE Spec2Model ----
(***************************************************************************)
(* State machine of csv_tagger.py: a CSV file and a column mapping are     *)
(* upgraded into a State, which the interactive loop then mutates by       *)
(* cursor movement and tag assignment, writing it to disk after every      *)
(* dispatched action.                                                      *)
(*                                                                         *)
(* Representation.  A cell of the CSV file is a sequence of one-character  *)
(* strings, so that date and number parsing read it character by           *)
(* character.  Python lists are sequences; a Python index i is the TLA+    *)
(* index i + 1 (see At and Slice).  A dict with string keys is a function  *)
(* on a set of strings.  Optional[str] is <<>> for None and <<t>> for the  *)
(* string t.  An amount (float) is an integer number of hundredths.        *)
(* A datetime.date is a record [year, month, day].                         *)
(***************************************************************************)
EXTENDS Integers, Sequences, FiniteSets, TLC

\* ------------------------------------------------------------------ bounds

\* Largest number of rows that follow the header row in a CSV file.
MaxRows == 2

\* ------------------------------------------------------ Python primitives

\* l[i]: a negative index counts from the end.
At(l, i) == IF i < 0 THEN l[Len(l) + i + 1] ELSE l[i + 1]

\* A slice bound as Python normalises it: a negative bound counts from the
\* end, and the result is clipped to 0..len.
SliceBound(i, n) ==
    IF i < 0 THEN (IF i + n < 0 THEN 0 ELSE i + n)
    ELSE IF i > n THEN n ELSE i

\* l[a:b]
Slice(l, a, b) ==
    LET lo == SliceBound(a, Len(l))
        hi == SliceBound(b, Len(l))
    IN  IF lo >= hi THEN <<>> ELSE SubSeq(l, lo + 1, hi)

\* Optional[str]
None == <<>>
Some(t) == <<t>>

Min(S) == CHOOSE x \in S : \A y \in S : x <= y

Digits == <<"0", "1", "2", "3", "4", "5", "6", "7", "8", "9">>

IsDigit(ch) == \E i \in 1..Len(Digits) : Digits[i] = ch

DigitValue(ch) == (CHOOSE i \in 1..Len(Digits) : Digits[i] = ch) - 1

AllDigits(cs) == \A i \in 1..Len(cs) : IsDigit(cs[i])

\* int() of a non-empty sequence of digits.
RECURSIVE ToInt(_)
ToInt(cs) ==
    IF cs = <<>> THEN 0
    ELSE 10 * ToInt(SubSeq(cs, 1, Len(cs) - 1)) + DigitValue(cs[Len(cs)])

\* str.split(sep) for a one-character separator.
RECURSIVE Split(_, _)
Split(cs, sep) ==
    IF \A i \in 1..Len(cs) : cs[i] # sep THEN <<cs>>
    ELSE LET k == Min({i \in 1..Len(cs) : cs[i] = sep})
         IN  <<SubSeq(cs, 1, k - 1)>> \o Split(SubSeq(cs, k + 1, Len(cs)), sep)

\* ------------------------------------------------------------ date parser

CURRENT_VERSION == "0.1.0"

\* A strptime format of three numeric directives joined by one separator.
DATE_FORMAT     == [sep |-> "/", fields |-> <<"d", "m", "Y">>]
DATE_FORMAT_BIS == [sep |-> "/", fields |-> <<"Y", "m", "d">>]
DATE_FORMAT_TER == [sep |-> "-", fields |-> <<"Y", "m", "d">>]

IsLeap(y) == (y % 4 = 0) /\ ((y % 100 # 0) \/ (y % 400 = 0))

DaysInMonth(y, m) ==
    IF m = 2 THEN (IF IsLeap(y) THEN 29 ELSE 28)
    ELSE IF m \in {4, 6, 9, 11} THEN 30 ELSE 31

\* The regular expression strptime builds for one directive:
\* %d is 1 or 2 digits in 1..31, %m is 1 or 2 digits in 1..12, %Y is 4 digits.
DirectiveMatches(d, cs) ==
    /\ AllDigits(cs)
    /\ IF d = "Y" THEN Len(cs) = 4
       ELSE /\ Len(cs) \in {1, 2}
            /\ ToInt(cs) >= 1
            /\ ToInt(cs) <= (IF d = "d" THEN 31 ELSE 12)

\* datetime.datetime.strptime(s, f).date(): [ok |-> FALSE] is ValueError.
strptime(cs, f) ==
    LET parts == Split(cs, f.sep)
        pos(d) == CHOOSE i \in 1..3 : f.fields[i] = d
    IN  IF /\ Len(parts) = 3
           /\ \A i \in 1..3 : DirectiveMatches(f.fields[i], parts[i])
        THEN LET y  == ToInt(parts[pos("Y")])
                 m  == ToInt(parts[pos("m")])
                 dd == ToInt(parts[pos("d")])
             IN  IF y >= 1 /\ dd <= DaysInMonth(y, m)
                 THEN [ok |-> TRUE, date |-> [year |-> y, month |-> m, day |-> dd]]
                 ELSE [ok |-> FALSE]
        ELSE [ok |-> FALSE]

\* The formats in the order the loop tries them.
DateFormats == <<DATE_FORMAT, DATE_FORMAT_TER, DATE_FORMAT_BIS>>

\* First format that parses wins; [ok |-> FALSE] is the final ValueError.
best_effort_date_parsing(cs) ==
    LET good == {i \in 1..Len(DateFormats) : strptime(cs, DateFormats[i]).ok}
    IN  IF good = {} THEN [ok |-> FALSE]
        ELSE strptime(cs, DateFormats[Min(good)])

\* ----------------------------------------------------------- number parser

\* float(cs) in hundredths for cells written as [sign] digits [. digits]
\* with at most two fractional digits (the form bank exports use);
\* [ok |-> FALSE] is ValueError.
float(cs) ==
    LET neg   == Len(cs) >= 1 /\ cs[1] = "-"
        body  == IF Len(cs) >= 1 /\ cs[1] \in {"-", "+"}
                 THEN SubSeq(cs, 2, Len(cs)) ELSE cs
        parts == Split(body, ".")
        whole == parts[1]
        frac  == IF Len(parts) = 2 THEN parts[2] ELSE <<>>
        cents == IF Len(frac) = 0 THEN 0
                 ELSE IF Len(frac) = 1 THEN 10 * ToInt(frac) ELSE ToInt(frac)
        mag   == 100 * ToInt(whole) + cents
    IN  IF /\ Len(parts) \in {1, 2}
           /\ AllDigits(whole) /\ AllDigits(frac)
           /\ Len(whole) + Len(frac) >= 1
           /\ Len(frac) <= 2
        THEN [ok |-> TRUE, value |-> IF neg THEN 0 - mag ELSE mag]
        ELSE [ok |-> FALSE]

\* ------------------------------------------------------------ record model

\* Variant of parse_csv_line without the two try / except: an unparseable
\* amount is a ValueError like an unparseable date.
parse_csv_line_strict(ctn, mapping) ==
    LET used == {mapping.debit, mapping.credit}
                    \cup {mapping.dates[k] : k \in DOMAIN mapping.dates}
                    \cup {mapping.infos[k] : k \in DOMAIN mapping.infos}
    IN  IF \E col \in used : col >= Len(ctn)
        THEN [ok |-> FALSE, err |-> "IndexError"]
        ELSE IF \/ ~float(At(ctn, mapping.debit)).ok
                \/ ~float(At(ctn, mapping.credit)).ok
                \/ \E k \in DOMAIN mapping.dates :
                      ~best_effort_date_parsing(At(ctn, mapping.dates[k])).ok
        THEN [ok |-> FALSE, err |-> "ValueError"]
        ELSE [ok   |-> TRUE,
              line |-> [content |-> ctn,
                        dates   |-> [k \in DOMAIN mapping.dates |->
                                       best_effort_date_parsing(
                                           At(ctn, mapping.dates[k])).date],
                        tag     |-> None,
                        infos   |-> [k \in DOMAIN mapping.infos |->
                                       At(ctn, mapping.infos[k])],
                        debit   |-> float(At(ctn, mapping.debit)).value,
                        credit  |-> float(At(ctn, mapping.credit)).value]]

\* parse_csv_line(ctn, mapping).  A cell index past the end of the row is an
\* IndexError and an unparseable date a ValueError, both uncaught; an
\* unparseable amount is caught and replaced by 0.
parse_csv_line(ctn, mapping) ==
    LET used == {mapping.debit, mapping.credit}
                    \cup {mapping.dates[k] : k \in DOMAIN mapping.dates}
                    \cup {mapping.infos[k] : k \in DOMAIN mapping.infos}
        amount(col) == LET r == float(At(ctn, col))
                       IN  IF r.ok THEN r.value ELSE 0
    IN  IF \E col \in used : col >= Len(ctn)
        THEN [ok |-> FALSE, err |-> "IndexError"]
        ELSE IF \E k \in DOMAIN mapping.dates :
                    ~best_effort_date_parsing(At(ctn, mapping.dates[k])).ok
        THEN [ok |-> FALSE, err |-> "ValueError"]
        ELSE [ok   |-> TRUE,
              line |-> [content |-> ctn,
                        dates   |-> [k \in DOMAIN mapping.dates |->
                                       best_effort_date_parsing(
                                           At(ctn, mapping.dates[k])).date],
                        tag     |-> None,
                        infos   |-> [k \in DOMAIN mapping.infos |->
                                       At(ctn, mapping.infos[k])],
                        debit   |-> amount(mapping.debit),
                        credit  |-> amount(mapping.credit)]]

\* Variant of upgrade_csv that takes the start row for one more header row:
\* the lines are built from c.content[c.start + 1 :].
upgrade_csv_skip_first(file, mapping) ==
    LET rows   == Slice(file.content, file.start + 1, Len(file.content))
        parsed == [i \in 1..Len(rows) |-> parse_csv_line(rows[i], mapping)]
    IN  IF \E i \in 1..Len(rows) : ~parsed[i].ok
        THEN [ok |-> FALSE]
        ELSE [ok    |-> TRUE,
              state |-> [version  |-> CURRENT_VERSION,
                         cursor   |-> 0,
                         mapping  |-> mapping,
                         data     |-> [i \in 1..Len(rows) |-> parsed[i].line],
                         unparsed |-> Slice(file.content, 0, file.start)]]

\* Variant of upgrade_csv that leaves out the rows that fail to parse
\* instead of failing.
upgrade_csv_partial(file, mapping) ==
    LET rows   == Slice(file.content, file.start, Len(file.content))
        parsed == [i \in 1..Len(rows) |-> parse_csv_line(rows[i], mapping)]
        RECURSIVE keep(_)
        keep(i) == IF i > Len(rows) THEN <<>>
                   ELSE IF parsed[i].ok THEN <<parsed[i].line>> \o keep(i + 1)
                   ELSE keep(i + 1)
    IN  [ok    |-> TRUE,
         state |-> [version  |-> CURRENT_VERSION,
                    cursor   |-> 0,
                    mapping  |-> mapping,
                    data     |-> keep(1),
                    unparsed |-> Slice(file.content, 0, file.start)]]

\* upgrade_csv(c, m): every row from c.start on becomes a line, the rows
\* before it are kept as they are; one failing row fails the whole call.
upgrade_csv(file, mapping) ==
    LET rows   == Slice(file.content, file.start, Len(file.content))
        parsed == [i \in 1..Len(rows) |-> parse_csv_line(rows[i], mapping)]
    IN  IF \E i \in 1..Len(rows) : ~parsed[i].ok
        THEN [ok |-> FALSE]
        ELSE [ok    |-> TRUE,
              state |-> [version  |-> CURRENT_VERSION,
                         cursor   |-> 0,
                         mapping  |-> mapping,
                         data     |-> [i \in 1..Len(rows) |-> parsed[i].line],
                         unparsed |-> Slice(file.content, 0, file.start)]]

\* ------------------------------------------------------------- navigation

\* Variant of next_line that stops on the last line instead of wrapping.
next_line_clamp(st) ==
    [st EXCEPT !.cursor = IF st.cursor + 1 > Len(st.data) - 1
                          THEN Len(st.data) - 1 ELSE st.cursor + 1]

next_line(st) == [st EXCEPT !.cursor = (st.cursor + 1) % Len(st.data)]

\* Variant of prev_line without the modulo.
prev_line_nomod(st) == [st EXCEPT !.cursor = st.cursor - 1]

\* Variant of prev_line that stops on line 0 instead of wrapping.
prev_line_clamp(st) ==
    [st EXCEPT !.cursor = IF st.cursor - 1 < 0 THEN 0 ELSE st.cursor - 1]

prev_line(st) == [st EXCEPT !.cursor = (st.cursor - 1) % Len(st.data)]

\* Variant of next_tag that scans data[cursor :], the current line included.
next_tag_inclusive(st) ==
    LET tail == Slice(st.data, st.cursor, Len(st.data))
        hits == {i \in 0..(Len(tail) - 1) : At(tail, i).tag = None}
    IN  IF hits = {} THEN st
        ELSE [st EXCEPT !.cursor = Min(hits) + st.cursor]

\* Variant of next_tag that goes on from line 0 when nothing is found after
\* the cursor.
next_tag_wrap(st) ==
    LET tail  == Slice(st.data, st.cursor + 1, Len(st.data))
        hits  == {i \in 0..(Len(tail) - 1) : At(tail, i).tag = None}
        head  == Slice(st.data, 0, st.cursor)
        early == {i \in 0..(Len(head) - 1) : At(head, i).tag = None}
    IN  IF hits # {} THEN [st EXCEPT !.cursor = 1 + Min(hits) + st.cursor]
        ELSE IF early # {} THEN [st EXCEPT !.cursor = Min(early)]
        ELSE st

\* First untagged line of data[cursor + 1 :], if any.
next_tag(st) ==
    LET tail == Slice(st.data, st.cursor + 1, Len(st.data))
        hits == {i \in 0..(Len(tail) - 1) : At(tail, i).tag = None}
    IN  IF hits = {} THEN st
        ELSE [st EXCEPT !.cursor = 1 + Min(hits) + st.cursor]

\* First untagged line of reversed(data[: cursor]), if any.
prev_tag(st) ==
    LET head == Slice(st.data, 0, st.cursor)
        rev  == [i \in 1..Len(head) |-> head[Len(head) + 1 - i]]
        hits == {i \in 0..(Len(rev) - 1) : At(rev, i).tag = None}
    IN  IF hits = {} THEN st
        ELSE [st EXCEPT !.cursor = st.cursor - Min(hits) - 1]

\* Variant of update_tag that advances with next_line: to the line after,
\* around the end, tagged or not.
update_tag_next_line(name, st) ==
    LET pos == IF st.cursor < 0 THEN Len(st.data) + st.cursor + 1
               ELSE st.cursor + 1
    IN  next_line([st EXCEPT !.data[pos].tag = Some(name)])

\* Variant of update_tag that takes the tag off a line that already has it.
update_tag_toggle(name, st) ==
    LET pos == IF st.cursor < 0 THEN Len(st.data) + st.cursor + 1
               ELSE st.cursor + 1
        tag == IF st.data[pos].tag = Some(name) THEN None ELSE Some(name)
    IN  next_tag([st EXCEPT !.data[pos].tag = tag])

\* Variant of update_tag that moves first and tags the line it lands on.
update_tag_advance_first(name, st) ==
    LET moved == next_tag(st)
    IN  [moved EXCEPT !.data[moved.cursor + 1].tag = Some(name)]

\* Variant of update_tag that also tags the lines it skips on the way to the
\* next untagged one.
update_tag_fill(name, st) ==
    LET moved == next_tag([st EXCEPT !.data[st.cursor + 1].tag = Some(name)])
    IN  [moved EXCEPT !.data =
            [i \in 1..Len(st.data) |->
                IF i - 1 >= st.cursor /\ i - 1 < moved.cursor
                THEN [st.data[i] EXCEPT !.tag = Some(name)]
                ELSE st.data[i]]]

\* update_tag(name)(s): tag the line under the cursor, then next_tag.
update_tag(name, st) ==
    LET pos == IF st.cursor < 0 THEN Len(st.data) + st.cursor + 1
               ELSE st.cursor + 1
    IN  next_tag([st EXCEPT !.data[pos].tag = Some(name)])

\* show_help only prints.
show_help(st) == st

\* Variant of the dispatch table without the entry for the empty line.
actions_no_empty ==
    ("<" :> "prev_line") @@ (">" :> "next_line")
        @@ ("«" :> "prev_tag") @@ ("»" :> "next_tag") @@ ("?" :> "show_help")

\* The dispatch table: command string |-> handler.
actions ==
    ("<" :> "prev_line") @@ (">" :> "next_line") @@ ("" :> "next_line")
        @@ ("«" :> "prev_tag") @@ ("»" :> "next_tag") @@ ("?" :> "show_help")

Call(handler, st) ==
    CASE handler = "prev_line" -> prev_line(st)
      [] handler = "next_line" -> next_line(st)
      [] handler = "prev_tag"  -> prev_tag(st)
      [] handler = "next_tag"  -> next_tag(st)
      [] handler = "show_help" -> show_help(st)

\* actions.get(i_action, update_tag(i_action))(s)
Dispatch(cmd, st) ==
    IF cmd \in DOMAIN actions THEN Call(actions[cmd], st)
    ELSE update_tag(cmd, st)

\* ---------------------------------------------------------- serialization

\* The decimal digits of n >= 0, left-padded with "0" to the given width.
RECURSIVE Pad(_, _)
Pad(n, width) ==
    IF width <= 1 /\ n < 10 THEN <<Digits[n + 1]>>
    ELSE Pad(n \div 10, width - 1) \o <<Digits[(n % 10) + 1]>>

\* The digits of n >= 0 without padding.
RECURSIVE Unpadded(_)
Unpadded(n) ==
    IF n < 10 THEN <<Digits[n + 1]>>
    ELSE Unpadded(n \div 10) \o <<Digits[(n % 10) + 1]>>

\* Variant of the date dump that does not pad: 2024-3-5 for 5 March 2024.
isoformat_nopad(d) ==
    Unpadded(d.year) \o <<"-">> \o Unpadded(d.month) \o <<"-">> \o Unpadded(d.day)

\* datetime.date.isoformat(): YYYY-MM-DD
isoformat(d) ==
    Pad(d.year, 4) \o <<"-">> \o Pad(d.month, 2) \o <<"-">> \o Pad(d.day, 2)

\* The date validator of the model class: YYYY-MM-DD exactly.
fromisoformat(cs) ==
    LET parts == Split(cs, "-")
    IN  IF /\ Len(parts) = 3
           /\ Len(parts[1]) = 4 /\ Len(parts[2]) = 2 /\ Len(parts[3]) = 2
           /\ \A i \in 1..3 : AllDigits(parts[i])
           /\ ToInt(parts[1]) >= 1
           /\ ToInt(parts[2]) \in 1..12
           /\ ToInt(parts[3]) >= 1
           /\ ToInt(parts[3]) <= DaysInMonth(ToInt(parts[1]), ToInt(parts[2]))
        THEN [ok |-> TRUE, date |-> [year  |-> ToInt(parts[1]),
                                     month |-> ToInt(parts[2]),
                                     day   |-> ToInt(parts[3])]]
        ELSE [ok |-> FALSE]

\* JSON values of an Optional[str]: null, or the string.
JsonNull == [null |-> TRUE]
JsonStr(t) == [str |-> t]

\* State.model_dump_json(): the JSON document of a state.  Dates are written
\* in ISO format and an unset tag as null.
model_dump_json(st) ==
    [version  |-> st.version,
     cursor   |-> st.cursor,
     mapping  |-> st.mapping,
     data     |-> [i \in 1..Len(st.data) |->
                     LET l == st.data[i]
                     IN  [content |-> l.content,
                          dates   |-> [k \in DOMAIN l.dates |-> isoformat(l.dates[k])],
                          tag     |-> IF l.tag = None THEN JsonNull
                                      ELSE JsonStr(l.tag[1]),
                          infos   |-> l.infos,
                          debit   |-> l.debit,
                          credit  |-> l.credit]],
     unparsed |-> st.unparsed]

\* Variant of the load that does not read the tags back: every line comes
\* out with the default, None.
model_validate_json_untagged(doc) ==
    IF \E i \in 1..Len(doc.data) : \E k \in DOMAIN doc.data[i].dates :
           ~fromisoformat(doc.data[i].dates[k]).ok
    THEN [ok |-> FALSE]
    ELSE [ok    |-> TRUE,
          state |-> [version  |-> doc.version,
                     cursor   |-> doc.cursor,
                     mapping  |-> doc.mapping,
                     data     |-> [i \in 1..Len(doc.data) |->
                                     LET l == doc.data[i]
                                     IN  [content |-> l.content,
                                          dates   |-> [k \in DOMAIN l.dates |->
                                                        fromisoformat(l.dates[k]).date],
                                          tag     |-> None,
                                          infos   |-> l.infos,
                                          debit   |-> l.debit,
                                          credit  |-> l.credit]],
                     unparsed |-> doc.unparsed]]

\* State.model_validate_json(txt) on a document with every field present:
\* [ok |-> FALSE] is ValidationError (here, a date that is not an ISO date).
model_validate_json(doc) ==
    IF \E i \in 1..Len(doc.data) : \E k \in DOMAIN doc.data[i].dates :
           ~fromisoformat(doc.data[i].dates[k]).ok
    THEN [ok |-> FALSE]
    ELSE [ok    |-> TRUE,
          state |-> [version  |-> doc.version,
                     cursor   |-> doc.cursor,
                     mapping  |-> doc.mapping,
                     data     |-> [i \in 1..Len(doc.data) |->
                                     LET l == doc.data[i]
                                     IN  [content |-> l.content,
                                          dates   |-> [k \in DOMAIN l.dates |->
                                                        fromisoformat(l.dates[k]).date],
                                          tag     |-> IF "str" \in DOMAIN l.tag
                                                      THEN Some(l.tag.str)
                                                      ELSE None,
                                          infos   |-> l.infos,
                                          debit   |-> l.debit,
                                          credit  |-> l.credit]],
                     unparsed |-> doc.unparsed]]

\* The file at the save path: absent, or holding one document.
NoFile == [exists |-> FALSE]

\* write_state(s, p): the file is opened with "w" and holds the dump alone.
write_state(st) == [exists |-> TRUE, doc |-> model_dump_json(st)]

\* read_state(p)
read_state(f) == model_validate_json(f.doc)

\* ------------------------------------------------------------ what is shown

\* Nothing that is modelled was printed.
NoOutput == [kind |-> "none"]

\* An uncaught exception ended the command.
Raised(name) == [kind |-> "exception", name |-> name]

\* t = line.tag or "UNTAGGED": None and the empty string are both falsy.
SummaryKey(line) ==
    IF line.tag = None \/ line.tag = Some("") THEN "UNTAGGED" ELSE line.tag[1]

\* The keys of tags_count in insertion order: each key where it first occurs.
RECURSIVE KeysInOrder(_)
KeysInOrder(data) ==
    IF data = <<>> THEN <<>>
    ELSE LET before == KeysInOrder(SubSeq(data, 1, Len(data) - 1))
             k      == SummaryKey(data[Len(data)])
         IN  IF \E i \in 1..Len(before) : before[i] = k THEN before
             ELSE Append(before, k)

\* What one line adds to tags_count, tags_credit or tags_debit.
Addend(line, dict) ==
    IF dict = "count" THEN 1
    ELSE IF dict = "credit" THEN line.credit ELSE line.debit

\* dict[k] after the loop over data[1..n].
RECURSIVE Total(_, _, _, _)
Total(data, n, k, dict) ==
    IF n = 0 THEN 0
    ELSE Total(data, n - 1, k, dict)
             + (IF SummaryKey(data[n]) = k THEN Addend(data[n], dict) ELSE 0)

\* print_global_summary(s): the three dicts filled by the loop over s.data,
\* then max() over the keys, which raises ValueError when there is no key,
\* then one printed line per key.
print_global_summary(st) ==
    LET keys == KeysInOrder(st.data)
        n    == Len(st.data)
    IN  IF keys = <<>> THEN Raised("ValueError")
        ELSE [kind  |-> "summary",
              lines |-> [i \in 1..Len(keys) |->
                           [tag    |-> keys[i],
                            count  |-> Total(st.data, n, keys[i], "count"),
                            credit |-> Total(st.data, n, keys[i], "credit"),
                            debit  |-> Total(st.data, n, keys[i], "debit"),
                            total  |-> Total(st.data, n, keys[i], "credit")
                                         + Total(st.data, n, keys[i], "debit")]]]

\* `validate` on an existing file: State.parse_obj of the document, then the
\* version test; ValidationError is caught and printed.
validate(f) ==
    LET r == model_validate_json(f.doc)
    IN  IF r.ok
        THEN [kind |-> "validate", parsed |-> TRUE,
              mismatch |-> r.state.version # CURRENT_VERSION]
        ELSE [kind |-> "validate", parsed |-> FALSE, mismatch |-> FALSE]

\* ------------------------------------------------------------------ inputs

\* Rows of a bank export with the columns date, label, debit, credit.
HeaderRow ==
    << <<"D", "a", "t", "e">>, <<"L", "i", "b">>,
       <<"D", "e", "b", "i", "t">>, <<"C", "r", "e", "d", "i", "t">> >>

\* 01/02/2024, CB, -12.50, 0.00
RowCard ==
    << <<"0", "1", "/", "0", "2", "/", "2", "0", "2", "4">>, <<"C", "B">>,
       <<"-", "1", "2", ".", "5", "0">>, <<"0", ".", "0", "0">> >>

\* 2024-03-05, VIR, abc, 5: the debit cell is not a number.
RowTransfer ==
    << <<"2", "0", "2", "4", "-", "0", "3", "-", "0", "5">>, <<"V", "I", "R">>,
       <<"a", "b", "c">>, <<"5">> >>

\* 31/02/2024, PRV, 0.00, 7.25: the date cell is no date in any format.
RowBadDate ==
    << <<"3", "1", "/", "0", "2", "/", "2", "0", "2", "4">>, <<"P", "R", "V">>,
       <<"0", ".", "0", "0">>, <<"7", ".", "2", "5">> >>

RowPool == {RowCard, RowTransfer, RowBadDate}

\* What parse_csv and interactive_parse_csv return: a header row followed by
\* up to MaxRows rows, and a start line clamped into the file.
CSVFiles ==
    LET bodies   == UNION {[1..n -> RowPool] : n \in 0..MaxRows}
        contents == {<<HeaderRow>> \o b : b \in bodies}
    IN  {f \in [content : contents, start : 0..MaxRows] :
            f.start <= Len(f.content) - 1}

\* Two answers to interactive_define_mapping: column 0 typed as a date named
\* "op", or column 0 kept as a plain info under its header name.
MappingDated ==
    [dates |-> [k \in {"op"} |-> 0], tag |-> 0,
     infos |-> [k \in {"Lib"} |-> 1], debit |-> 2, credit |-> 3]

MappingPlain ==
    [dates |-> [k \in {} |-> 0], tag |-> 0,
     infos |-> [k \in {"Date", "Lib"} |-> IF k = "Date" THEN 0 ELSE 1],
     debit |-> 2, credit |-> 3]

Mappings == {MappingDated, MappingPlain}

\* Tags the user types.
TagNames == {"food", "rent"}

\* Lines the user types at the "Action: " prompt.
Commands == {"<", ">", "", "«", "»", "?", "q", "quit"} \cup TagNames

\* ------------------------------------------------------------ the program

VARIABLES
    pc,        \* "new": before upgrade_csv; "loop": at the Action prompt;
               \* "done": the loop was left; "error": an uncaught exception
    c,         \* the CSVFile given to `new`
    m,         \* the CSVMapping given to `new`
    s,         \* the State in memory
    disk,      \* the file at the save path
    i_action,  \* the last line read at the prompt in this run, if any
    old,       \* s as it was when that line was read
    printed    \* what the last command showed: a summary, a validation
               \* report, an exception, or nothing that is modelled

vars == <<pc, c, m, s, disk, i_action, old, printed>>

\* No State object exists before upgrade_csv returns.
Unbuilt(mapping) ==
    [version |-> "", cursor |-> 0, mapping |-> mapping,
     data |-> <<>>, unparsed |-> <<>>]

Init ==
    /\ pc = "new"
    /\ c \in CSVFiles
    /\ m \in Mappings
    /\ s = Unbuilt(m)
    /\ disk = NoFile
    /\ i_action = None
    /\ old = s
    /\ printed = NoOutput

\* `new`, step 1: s = upgrade_csv(c, m); an exception ends the program.
New ==
    /\ pc = "new"
    /\ LET r == upgrade_csv(c, m)
       IN  IF r.ok
           THEN /\ s' = r.state
                /\ old' = r.state
                /\ pc' = "loop"
           ELSE /\ pc' = "error"
                /\ UNCHANGED <<s, old>>
    /\ UNCHANGED <<c, m, disk, i_action, printed>>

\* The print_* calls at the top of the loop read s.data[s.cursor].
CursorReadable(st) ==
    /\ st.cursor < Len(st.data)
    /\ st.cursor >= 0 - Len(st.data)

\* Variant of the loop turn that writes the state before the action runs.
interactive_modify_write_first(cmd) ==
    /\ pc = "loop"
    /\ IF ~CursorReadable(s)
       THEN /\ pc' = "error"
            /\ UNCHANGED <<s, disk, i_action, old, printed>>
       ELSE /\ i_action' = Some(cmd)
            /\ old' = s
            /\ IF cmd = "q" \/ cmd = "quit"
               THEN /\ printed' = print_global_summary(s)
                    /\ pc' = IF printed'.kind = "exception"
                             THEN "error" ELSE "done"
                    /\ UNCHANGED <<s, disk>>
               ELSE /\ s' = Dispatch(cmd, s)
                    /\ disk' = write_state(s)
                    /\ pc' = "loop"
                    /\ printed' = NoOutput
    /\ UNCHANGED <<c, m>>

\* Variant of the loop turn that tests for q / quit after the action and
\* the write instead of before them.
interactive_modify_late_quit(cmd) ==
    /\ pc = "loop"
    /\ IF ~CursorReadable(s)
       THEN /\ pc' = "error"
            /\ UNCHANGED <<s, disk, i_action, old, printed>>
       ELSE /\ i_action' = Some(cmd)
            /\ old' = s
            /\ s' = Dispatch(cmd, s)
            /\ disk' = write_state(s')
            /\ pc' = IF cmd = "q" \/ cmd = "quit" THEN "done" ELSE "loop"
            /\ printed' = IF cmd = "q" \/ cmd = "quit"
                          THEN print_global_summary(s') ELSE NoOutput
    /\ UNCHANGED <<c, m>>

\* One turn of the loop of interactive_modify: the prints, the prompt, then
\* either the break on q / quit, after which `new` and `resume` print the
\* global summary, or the dispatched action and write_state.
interactive_modify(cmd) ==
    /\ pc = "loop"
    /\ IF ~CursorReadable(s)
       THEN /\ pc' = "error"
            /\ UNCHANGED <<s, disk, i_action, old, printed>>
       ELSE /\ i_action' = Some(cmd)
            /\ old' = s
            /\ IF cmd = "q" \/ cmd = "quit"
               THEN /\ printed' = print_global_summary(s)
                    /\ pc' = IF printed'.kind = "exception"
                             THEN "error" ELSE "done"
                    /\ UNCHANGED <<s, disk>>
               ELSE /\ s' = Dispatch(cmd, s)
                    /\ disk' = write_state(s')
                    /\ pc' = "loop"
                    /\ printed' = NoOutput
    /\ UNCHANGED <<c, m>>

\* `resume` on the save path of an earlier run: s = read_state(file), then
\* the loop again.
Resume ==
    /\ pc = "done"
    /\ IF disk.exists /\ read_state(disk).ok
       THEN /\ s' = read_state(disk).state
            /\ old' = read_state(disk).state
            /\ i_action' = None
            /\ pc' = "loop"
            /\ printed' = NoOutput
       ELSE /\ pc' = "error"
            /\ UNCHANGED <<s, old, i_action, printed>>
    /\ UNCHANGED <<c, m, disk>>

Next ==
    \/ New
    \/ \E cmd \in Commands : interactive_modify(cmd)
    \/ Resume

Spec == Init /\ [][Next]_vars

\* ------------------------------------------- the functions on a given State

\* Tags of the lines of a given State: unset, a tag, and the tag that spells
\* the name print_global_summary gives to the unset ones.
GivenTags == {None, Some("food"), Some("UNTAGGED")}

\* The lines parse_csv_line builds from the rows under the mapping, tagged.
GivenLines(mapping) ==
    {[parse_csv_line(row, mapping).line EXCEPT !.tag = tg] :
        row \in {r \in RowPool : parse_csv_line(r, mapping).ok},
        tg \in GivenTags}

\* Valid States: as a run of an earlier or of this version of the program
\* left them, those with no line and those with no unparsed row included.
GivenData(mapping) == UNION {[1..n -> GivenLines(mapping)] : n \in 0..MaxRows}

GivenStates ==
    UNION {
        UNION {
            {[version |-> v, cursor |-> k, mapping |-> mp,
              data |-> d, unparsed |-> u] :
                v \in {CURRENT_VERSION, "0.0.9"},
                k \in {0, IF Len(d) = 0 THEN 0 ELSE Len(d) - 1},
                u \in {<<>>, <<HeaderRow>>}} :
            d \in GivenData(mp)} :
        mp \in Mappings}

\* The CSV file a State was built from.
SourceFile(st) ==
    [content |-> st.unparsed \o [i \in 1..Len(st.data) |-> st.data[i].content],
     start   |-> Len(st.unparsed)]

\* A valid State is given, and kept in old; nothing is written yet.
FileInit ==
    /\ pc = "given"
    /\ s \in GivenStates
    /\ old = s
    /\ m = s.mapping
    /\ c = SourceFile(s)
    /\ disk = NoFile
    /\ i_action = None
    /\ printed = NoOutput

\* write_state(s, p)
Save ==
    /\ pc = "given"
    /\ disk' = write_state(s)
    /\ pc' = "saved"
    /\ UNCHANGED <<c, m, s, i_action, old, printed>>

\* s = read_state(p), as `resume` calls it: nothing is compared or printed.
Load ==
    /\ pc = "saved"
    /\ LET r == read_state(disk)
       IN  IF r.ok
           THEN /\ s' = r.state
                /\ pc' = "loaded"
                /\ printed' = NoOutput
           ELSE /\ pc' = "error"
                /\ printed' = Raised("ValidationError")
                /\ UNCHANGED s
    /\ UNCHANGED <<c, m, disk, i_action, old>>

\* `validate` on the written file.
Validate ==
    /\ pc \in {"saved", "loaded"}
    /\ printed = NoOutput
    /\ printed' = validate(disk)
    /\ UNCHANGED <<pc, c, m, s, disk, i_action, old>>

\* print_global_summary(s) on the given or the loaded State.
Summarise ==
    /\ pc \in {"given", "loaded"}
    /\ printed = NoOutput
    /\ printed' = print_global_summary(s)
    /\ pc' = IF printed'.kind = "exception" THEN "error" ELSE pc
    /\ UNCHANGED <<c, m, s, disk, i_action, old>>

FileNext ==
    \/ Save
    \/ Load
    \/ Validate
    \/ Summarise

FileSpec == FileInit /\ [][FileNext]_vars

\* ------------------------------------------------------------- properties

\* A State exists: upgrade_csv or read_state returned one.
Built == pc \in {"loop", "done"}

\* The last turn of the loop read cmd (old is the state it found, s the
\* state it left).
Did(cmd) == i_action = Some(cmd)

Max(S) == CHOOSE x \in S : \A y \in S : x >= y

\* Python indices of the untagged lines after / before the cursor of st.
UntaggedAfter(st) ==
    {i \in 0..(Len(st.data) - 1) : i > st.cursor /\ st.data[i + 1].tag = None}

UntaggedBefore(st) ==
    {i \in 0..(Len(st.data) - 1) : i < st.cursor /\ st.data[i + 1].tag = None}

\* C1: from a state built by upgrade_csv, after any sequence of prev_line,
\* next_line, prev_tag, next_tag and update_tag the cursor is an index of
\* data: 0 <= cursor < len(data).
C1_CursorInRange ==
    Built => (Len(s.data) >= 1 /\ s.cursor >= 0 /\ s.cursor < Len(s.data))

\* C1 witness: a tag was assigned on the last of several lines and the
\* cursor stayed there.
C1_Witness ==
    /\ pc = "loop"
    /\ Did("food")
    /\ Len(s.data) >= 2
    /\ old.cursor = Len(s.data) - 1
    /\ s.cursor = Len(s.data) - 1

\* C2: next_line moves the cursor one line down and from the last line to
\* line 0; prev_line moves it one line up and from line 0 to the last line;
\* with a single line both leave it at 0.
C2_LineStepWraps ==
    LET n == Len(old.data)
    IN  /\ (Did(">") \/ Did("")) =>
              /\ s.cursor = (IF old.cursor = n - 1 THEN 0 ELSE old.cursor + 1)
              /\ (n = 1 => s.cursor = 0)
        /\ Did("<") =>
              /\ s.cursor = (IF old.cursor = 0 THEN n - 1 ELSE old.cursor - 1)
              /\ (n = 1 => s.cursor = 0)

\* C2 witness: next_line on the last of several lines went to line 0.
C2_Witness ==
    /\ Did(">")
    /\ Len(old.data) >= 2
    /\ old.cursor = Len(old.data) - 1
    /\ s.cursor = 0

\* C3: next_line then prev_line, and prev_line then next_line, bring the
\* cursor back to where it was, the wrap at either end included.
C3_LineStepsInverse ==
    /\ (Did(">") \/ Did("")) => prev_line(s).cursor = old.cursor
    /\ Did("<") => next_line(s).cursor = old.cursor
    /\ pc = "loop" =>
          /\ prev_line(next_line(s)).cursor = s.cursor
          /\ next_line(prev_line(s)).cursor = s.cursor

\* C3 witness: prev_line wrapped from line 0 to the last of several lines,
\* from where next_line leads back to line 0.
C3_Witness ==
    /\ pc = "loop"
    /\ Did("<")
    /\ Len(old.data) >= 2
    /\ old.cursor = 0
    /\ s.cursor = Len(s.data) - 1
    /\ next_line(s).cursor = 0

\* C4: next_tag moves the cursor to the nearest untagged line after it and
\* prev_tag to the nearest untagged line before it, whenever there is one;
\* the line under the cursor is never the target.
C4_NearestUntagged ==
    /\ (Did("»") /\ UntaggedAfter(old) # {}) =>
          /\ s.cursor = Min(UntaggedAfter(old))
          /\ s.cursor # old.cursor
    /\ (Did("«") /\ UntaggedBefore(old) # {}) =>
          /\ s.cursor = Max(UntaggedBefore(old))
          /\ s.cursor # old.cursor

\* C4 witness: next_tag from an untagged line with two untagged lines after
\* it went to the nearer one.
C4_Witness ==
    /\ Did("»")
    /\ At(old.data, old.cursor).tag = None
    /\ Cardinality(UntaggedAfter(old)) >= 2
    /\ s.cursor = old.cursor + 1

\* C5: the untagged scans do not wrap: with no untagged line after the
\* cursor next_tag leaves the cursor where it is, and with none before it
\* prev_tag does, whatever lies on the other side.
C5_ScanDoesNotWrap ==
    /\ (Did("»") /\ UntaggedAfter(old) = {}) => s.cursor = old.cursor
    /\ (Did("«") /\ UntaggedBefore(old) = {}) => s.cursor = old.cursor

\* C5 witness: three lines, lines 0 and 2 untagged and line 1 tagged, the
\* cursor on line 2: next_tag left it on line 2.
C5_Witness ==
    /\ Did("»")
    /\ Len(old.data) = 3
    /\ old.data[1].tag = None
    /\ old.data[2].tag # None
    /\ old.data[3].tag = None
    /\ old.cursor = 2
    /\ s.cursor = 2

\* The lines at the prompt that move the cursor, and those that leave the loop.
MoveCommands == {"<", ">", "", "«", "»"}
QuitCommands == {"q", "quit"}

\* C6: update_tag(name) with the cursor on line c is one step that leaves
\* line c tagged name, every other tag as it was, and the cursor on the
\* nearest untagged line after c, or on c when there is none.
C6_AssignTagStep ==
    \A name \in Commands \ (MoveCommands \cup QuitCommands \cup {"?"}) :
        Did(name) =>
            /\ Len(s.data) = Len(old.data)
            /\ At(s.data, old.cursor).tag = Some(name)
            /\ \A i \in 0..(Len(old.data) - 1) :
                  i # old.cursor => At(s.data, i).tag = At(old.data, i).tag
            /\ s.cursor = (IF UntaggedAfter(old) # {}
                           THEN Min(UntaggedAfter(old)) ELSE old.cursor)

\* C6 witness: a tag was assigned and the cursor went past a tagged line to
\* the untagged line after it.
C6_Witness ==
    /\ Did("food")
    /\ old.cursor + 2 < Len(old.data)
    /\ At(s.data, old.cursor).tag = Some("food")
    /\ At(old.data, old.cursor + 1).tag # None
    /\ s.cursor = old.cursor + 2
    /\ At(s.data, s.cursor).tag = None

\* C7 as stated: "<" is prev_line, ">" and the empty line are next_line,
\* "«" and "»" are prev_tag and next_tag, and every other line that is not
\* q or quit becomes the tag of the line under the cursor.
C7_AsStated ==
    \A cmd \in Commands \ QuitCommands :
        Did(cmd) =>
            IF cmd = "<" THEN s = prev_line(old)
            ELSE IF cmd = ">" \/ cmd = "" THEN s = next_line(old)
            ELSE IF cmd = "«" THEN s = prev_tag(old)
            ELSE IF cmd = "»" THEN s = next_tag(old)
            ELSE At(s.data, old.cursor).tag = Some(cmd)

\* C7, amended: as above, except that "?" shows the help and changes
\* neither the cursor nor any tag.
C7_Dispatch ==
    \A cmd \in Commands \ QuitCommands :
        Did(cmd) =>
            IF cmd = "<" THEN s = prev_line(old)
            ELSE IF cmd = ">" \/ cmd = "" THEN s = next_line(old)
            ELSE IF cmd = "«" THEN s = prev_tag(old)
            ELSE IF cmd = "»" THEN s = next_tag(old)
            ELSE IF cmd = "?" THEN s = old
            ELSE At(s.data, old.cursor).tag = Some(cmd)

\* C7 witness: "?" was read on an untagged line, which is still untagged.
C7_Witness ==
    /\ pc = "loop"
    /\ Did("?")
    /\ s = old
    /\ At(s.data, s.cursor).tag = None

\* C8: whenever the loop waits at the prompt after an action of this run,
\* the file holds the state in memory: reading it back gives s.
C8_WrittenAfterEveryAction ==
    (pc = "loop" /\ i_action # None) =>
        /\ disk.exists
        /\ read_state(disk).ok
        /\ read_state(disk).state = s

\* C8 witness: a tag was assigned, the cursor moved, and the file holds the
\* new tag and the new cursor.
C8_Witness ==
    /\ pc = "loop"
    /\ Did("rent")
    /\ s.cursor # old.cursor
    /\ disk.exists
    /\ disk.doc.cursor = s.cursor
    /\ At(disk.doc.data, old.cursor).tag = JsonStr("rent")

\* C9: "<", ">", "«", "»", "?", "q", "quit" and the empty line never become
\* tags; q and quit leave the loop with the state in memory and the file
\* as they were.
C9_ReservedNeverTags ==
    /\ [](Built =>
            \A i \in 1..Len(s.data) :
                \A r \in MoveCommands \cup QuitCommands \cup {"?"} :
                    s.data[i].tag # Some(r))
    /\ []((Did("q") \/ Did("quit")) => (pc # "loop" /\ s = old))
    /\ [][(pc = "loop" /\ pc' = "done") =>
            /\ i_action' \in {Some("q"), Some("quit")}
            /\ s' = s
            /\ disk' = disk]_vars

\* C9 witness: q was the first line typed after upgrade_csv: the loop is
\* left, the state is as built and no file was written.
C9_Witness ==
    /\ pc = "done"
    /\ Did("q")
    /\ s = old
    /\ ~disk.exists

\* C10: the moves (and the help) leave version, mapping, unparsed and data
\* as they were; update_tag changes the tag of the line that was under the
\* cursor and nothing else of version, mapping, unparsed and data; the
\* number and the order of the lines never change.
C10_Frame ==
    /\ i_action # None =>
          /\ s.version = old.version
          /\ s.mapping = old.mapping
          /\ s.unparsed = old.unparsed
          /\ Len(s.data) = Len(old.data)
    /\ \A cmd \in MoveCommands \cup {"?"} : Did(cmd) => s.data = old.data
    /\ \A name \in Commands \ (MoveCommands \cup QuitCommands \cup {"?"}) :
          Did(name) =>
              \A i \in 0..(Len(old.data) - 1) :
                  IF i = old.cursor
                  THEN [At(s.data, i) EXCEPT !.tag = At(old.data, i).tag]
                           = At(old.data, i)
                  ELSE At(s.data, i) = At(old.data, i)

\* C10 witness: a tag replaced another tag on one line, next to a tagged
\* line that was passed over.
C10_Witness ==
    /\ Did("rent")
    /\ At(old.data, old.cursor).tag = Some("food")
    /\ At(s.data, old.cursor).tag = Some("rent")
    /\ old.cursor + 1 < Len(old.data)
    /\ At(s.data, old.cursor + 1).tag = Some("food")
    /\ s.cursor = old.cursor + 2

\* upgrade_csv has just returned: the loop is at its first prompt and no
\* file was written or read yet.
Fresh == pc = "loop" /\ i_action = None /\ ~disk.exists

\* `new` ended with the exception upgrade_csv raised.
NewFailed == pc = "error" /\ i_action = None

\* C11: when upgrade_csv succeeds the state has cursor 0, the current
\* version, the rows before start as unparsed, in order, and one untagged
\* line per row from start on, in order, each holding its source row; so
\* len(unparsed) + len(data) = len(table).
C11_UpgradeResult ==
    Fresh =>
        /\ s.cursor = 0
        /\ s.version = "0.1.0"
        /\ s.mapping = m
        /\ Len(s.unparsed) = c.start
        /\ \A i \in 1..c.start : s.unparsed[i] = c.content[i]
        /\ Len(s.data) = Len(c.content) - c.start
        /\ \A i \in 1..(Len(c.content) - c.start) :
              /\ s.data[i].content = c.content[c.start + i]
              /\ s.data[i].tag = None
        /\ Len(s.unparsed) + Len(s.data) = Len(c.content)

\* C11 witness: a file of three rows with start 1 became one unparsed row
\* and two different lines.
C11_Witness ==
    /\ Fresh
    /\ c.start = 1
    /\ Len(c.content) = 3
    /\ s.unparsed = <<HeaderRow>>
    /\ Len(s.data) = 2
    /\ s.data[1].content = RowTransfer
    /\ s.data[2].content = RowCard

\* A cell of the row that the mapping types as a date is in none of the
\* three formats.
HasBadDate(row, mapping) ==
    \E k \in DOMAIN mapping.dates :
        ~best_effort_date_parsing(At(row, mapping.dates[k])).ok

\* C12: the import is all or nothing: a row at or after start with a date
\* cell in none of the three formats (31/02/2024 is one) makes upgrade_csv
\* fail and leaves no State and no file; the rows before start are not
\* parsed, so what they hold makes nothing fail.
C12_AllOrNothing ==
    pc # "new" =>
        LET bad == \E i \in (c.start + 1)..Len(c.content) :
                       HasBadDate(c.content[i], m)
        IN  /\ bad => (NewFailed /\ s = Unbuilt(m) /\ ~disk.exists)
            /\ ~bad => ~NewFailed
            /\ (/\ m = MappingDated
                /\ \E i \in (c.start + 1)..Len(c.content) :
                       c.content[i] = RowBadDate) => NewFailed

\* C12 witness: a good row followed by the row dated 31/02/2024, after a
\* header row that is skipped: upgrade_csv failed and no State exists.
C12_Witness ==
    /\ NewFailed
    /\ m = MappingDated
    /\ c = [content |-> <<HeaderRow, RowCard, RowBadDate>>, start |-> 1]
    /\ s = Unbuilt(m)

\* The debit or the credit cell of the row is not a number.
HasBadAmount(row, mapping) ==
    \/ ~float(At(row, mapping.debit)).ok
    \/ ~float(At(row, mapping.credit)).ok

\* C13: a debit or credit cell that is not a number is no error: the line
\* is built, that amount is 0, and the other amount, the dates and the infos
\* are what the row holds ("abc" as debit beside credit "5" gives debit 0
\* and credit 5.00).
C13_BadAmountIsZero ==
    /\ Built =>
          \A i \in 1..Len(s.data) :
              LET l   == s.data[i]
                  row == l.content
                  dbt == float(At(row, s.mapping.debit))
                  crd == float(At(row, s.mapping.credit))
              IN  /\ l.debit = (IF dbt.ok THEN dbt.value ELSE 0)
                  /\ l.credit = (IF crd.ok THEN crd.value ELSE 0)
                  /\ \A k \in DOMAIN s.mapping.infos :
                        l.infos[k] = At(row, s.mapping.infos[k])
                  /\ \A k \in DOMAIN s.mapping.dates :
                        l.dates[k] =
                            best_effort_date_parsing(At(row, s.mapping.dates[k])).date
                  /\ row = RowTransfer => (l.debit = 0 /\ l.credit = 500)
                  /\ row = RowCard => (l.debit = 0 - 1250 /\ l.credit = 0)
    /\ (/\ pc # "new"
        /\ \E i \in (c.start + 1)..Len(c.content) : HasBadAmount(c.content[i], m)
        /\ \A i \in (c.start + 1)..Len(c.content) : ~HasBadDate(c.content[i], m))
          => ~NewFailed

\* C13 witness: the row with debit "abc" became a line with debit 0, credit
\* 5.00 and its date and label.
C13_Witness ==
    /\ Fresh
    /\ m = MappingDated
    /\ s.data[1].content = RowTransfer
    /\ s.data[1].debit = 0
    /\ s.data[1].credit = 500
    /\ s.data[1].dates["op"] = [year |-> 2024, month |-> 3, day |-> 5]
    /\ s.data[1].infos["Lib"] = <<"V", "I", "R">>

\* C14: persistence round-trips: for a valid State x, with or without
\* unparsed rows, with or without lines, with tagged and untagged lines,
\* read_state of what write_state wrote for x succeeds and gives x again,
\* field for field; writing that once more gives the same file.
C14_RoundTrip ==
    /\ printed # Raised("ValidationError")
    /\ pc = "loaded" =>
          /\ s.version = old.version
          /\ s.cursor = old.cursor
          /\ s.mapping = old.mapping
          /\ s.data = old.data
          /\ s.unparsed = old.unparsed
          /\ write_state(s) = disk

\* C14 witness: a State with an unparsed row, a tagged and an untagged
\* line, both dated, was written and read back unchanged.
C14_Witness ==
    /\ pc = "loaded"
    /\ s = old
    /\ s.mapping = MappingDated
    /\ s.unparsed = <<HeaderRow>>
    /\ Len(s.data) = 2
    /\ s.data[1].tag = Some("food")
    /\ s.data[2].tag = None
    /\ s.data[2].dates["op"] = [year |-> 2024, month |-> 3, day |-> 5]
    /\ disk.doc.data[2].dates["op"]
           = <<"2", "0", "2", "4", "-", "0", "3", "-", "0", "5">>

\* C14 holds as well for the State with no line and no unparsed row.
C14_EmptyReached ==
    /\ pc = "loaded"
    /\ s = old
    /\ s.data = <<>>
    /\ s.unparsed = <<>>

\* The last output is a report of a version mismatch.
MismatchReported ==
    /\ printed.kind = "validate"
    /\ printed.mismatch

\* C15: loading a well-formed file whose version is not the program's
\* succeeds, returns the State with every field intact, and reports the
\* mismatch to the caller as a warning; a well-formed file never makes the
\* load fail.
C15_AsStated ==
    /\ printed # Raised("ValidationError")
    /\ (pc = "loaded" /\ s.version # CURRENT_VERSION) =>
          /\ s = old
          /\ MismatchReported

\* The part of C15 the load does: a foreign version is read back intact,
\* and read_state itself reports nothing.
C15_SilentLoad ==
    /\ pc = "loaded"
    /\ s.version # CURRENT_VERSION
    /\ s = old
    /\ printed = NoOutput

\* The rows of data whose tag is the given optional tag.
RowsTagged(data, tag) == {i \in 1..Len(data) : data[i].tag = tag}

\* The sum of a field ("credit" or "debit") over a set of rows.
RECURSIVE SumRows(_, _, _)
SumRows(data, rows, dict) ==
    IF rows = {} THEN 0
    ELSE LET i == CHOOSE j \in rows : TRUE
         IN  Addend(data[i], dict) + SumRows(data, rows \ {i}, dict)

\* The rows of data that carry a tag.
GivenNamed(data) == {i \in 1..Len(data) : data[i].tag # None}

\* The rows a summary group is about: the unset rows for "UNTAGGED", the
\* rows tagged t for any other t.
GroupRows(data, t) ==
    IF t = "UNTAGGED" THEN RowsTagged(data, None) ELSE RowsTagged(data, Some(t))

\* C16: the summary has one group per distinct tag value plus "UNTAGGED"
\* for the rows with unset tag; a group's count is the number of its rows
\* and its totals are the sums of their credit and debit; "UNTAGGED" counts
\* exactly the unset rows.
C16_AsStated ==
    printed.kind = "summary" =>
        /\ {printed.lines[g].tag : g \in 1..Len(printed.lines)}
              = {s.data[i].tag[1] : i \in GivenNamed(s.data)}
                  \cup (IF RowsTagged(s.data, None) = {} THEN {} ELSE {"UNTAGGED"})
        /\ \A g \in 1..Len(printed.lines) :
              LET line == printed.lines[g]
                  rows == GroupRows(s.data, line.tag)
              IN  /\ line.count = Cardinality(rows)
                  /\ line.credit = SumRows(s.data, rows, "credit")
                  /\ line.debit = SumRows(s.data, rows, "debit")

\* C16 on the States where no row is tagged "UNTAGGED" by name.
C16_ApartFromTheName ==
    (\A i \in 1..Len(s.data) : s.data[i].tag # Some("UNTAGGED")) => C16_AsStated

\* The State C16 fails on: one row tagged "UNTAGGED" by name, one unset;
\* the summary has one group, with count 2.
C16_Merged ==
    /\ printed.kind = "summary"
    /\ Len(s.data) = 2
    /\ s.data[1].tag = Some("UNTAGGED")
    /\ s.data[2].tag = None
    /\ Len(printed.lines) = 1
    /\ printed.lines[1].tag = "UNTAGGED"
    /\ printed.lines[1].count = 2

\* C17: summarising never fails, and for empty data the summary is empty.
C17_AsStated ==
    /\ printed # Raised("ValueError")
    /\ (printed.kind = "summary" /\ s.data = <<>>) => printed.lines = <<>>

\* The State C17 fails on: no line at all, and the summary raised.
C17_EmptyRaises ==
    /\ pc = "error"
    /\ s.data = <<>>
    /\ printed = Raised("ValueError")

\* The tags of the lines of st, in order.
Tags(st) == [i \in 1..Len(st.data) |-> st.data[i].tag]

\* st with the cursor brought back to the given row by prev_line.
RECURSIVE Back(_, _)
Back(st, row) == IF st.cursor = row THEN st ELSE Back(prev_line(st), row)

\* C18: update_tag is idempotent on the tags: after update_tag(name) with
\* the cursor on row c, bringing the cursor back to c and doing
\* update_tag(name) again leaves row c tagged name and every tag as the
\* first call left it; and a turn that tags a row with the tag it already
\* has changes no tag.
C18_Idempotent ==
    \A name \in TagNames :
        (pc = "loop" /\ Did(name)) =>
            LET again == update_tag(name, Back(s, old.cursor))
            IN  /\ At(s.data, old.cursor).tag = Some(name)
                /\ At(again.data, old.cursor).tag = Some(name)
                /\ Tags(again) = Tags(s)
                /\ At(old.data, old.cursor).tag = Some(name) => Tags(s) = Tags(old)

\* C18 witness: a tag turn moved the cursor off the row it tagged, so the
\* cursor has to be brought back before the second call.
C18_Witness ==
    /\ pc = "loop"
    /\ Did("food")
    /\ At(old.data, old.cursor).tag = None
    /\ s.cursor # old.cursor
    /\ Back(s, old.cursor).cursor = old.cursor
    /\ At(s.data, old.cursor).tag = Some("food")

\* C18 witness of the second call in the loop itself: the row under the
\* cursor already had the tag the turn gave it.
C18_SecondCall ==
    /\ pc = "loop"
    /\ Did("food")
    /\ At(old.data, old.cursor).tag = Some("food")

\* Indices of the lines of st that have no tag.
Untagged(st) == {i \in 1..Len(st.data) : st.data[i].tag = None}

\* C19: tagging is monotone: no step of the program, whatever the command
\* read by the loop, and no quit followed by resume, returns a line to the
\* untagged state: a tagged line stays tagged (possibly with another tag)
\* and the number of untagged lines never increases.
C19_Monotone ==
    [][(Built /\ Built') =>
          /\ Len(s'.data) = Len(s.data)
          /\ Untagged(s') \subseteq Untagged(s)
          /\ Cardinality(Untagged(s')) <= Cardinality(Untagged(s))]_vars

\* C19 witness: a tag was overwritten by another tag, and the line is
\* still tagged.
C19_Witness ==
    /\ pc = "loop"
    /\ Did("rent")
    /\ At(old.data, old.cursor).tag = Some("food")
    /\ At(s.data, old.cursor).tag = Some("rent")
    /\ Untagged(s) = Untagged(old)

\* C19 witness across a restart: a session that was resumed still has its
\* tagged line.
C19_Resumed ==
    /\ pc = "loop"
    /\ i_action = None
    /\ disk.exists
    /\ Untagged(s) # {}
    /\ Untagged(s) # 1..Len(s.data)

\* The last turn of the loop read a tag: a string that is neither a key of
\* the dispatch table nor a quit command.
TagTurn ==
    /\ pc = "loop"
    /\ i_action # None
    /\ i_action[1] \notin DOMAIN actions
    /\ i_action[1] \notin QuitCommands

\* The shape of st after k tag commands from a fresh state: exactly the rows
\* 0..k-1 are tagged; the cursor is on row k while there is one, and on the
\* last row once every row is tagged.
Prefix(st, k) ==
    /\ k <= Len(st.data)
    /\ \A i \in 1..Len(st.data) : (st.data[i].tag # None) <=> (i <= k)
    /\ st.cursor = IF k < Len(st.data) THEN k ELSE Len(st.data) - 1

\* C20: from a freshly upgraded state (cursor 0, N >= 1 rows, all untagged)
\* tag commands visit the rows in index order: the fresh state has the
\* shape of 0 tag commands, and a tag command takes the shape of k < N tag
\* commands to the shape of k + 1, where for k + 1 < N the cursor is on the
\* untagged row k + 1 and for k + 1 = N on row N - 1 with every row tagged.
\* And whenever a tag command moves the cursor, the row under the new
\* cursor is untagged.
C20_IndexOrder ==
    /\ Fresh => (Len(s.data) >= 1 /\ Prefix(s, 0) /\ At(s.data, 0).tag = None)
    /\ TagTurn =>
          /\ \A k \in 0..(Len(old.data) - 1) : Prefix(old, k) => Prefix(s, k + 1)
          /\ s.cursor # old.cursor => At(s.data, s.cursor).tag = None

\* C20 witness: the last of N = MaxRows tag commands in a row: every row is
\* tagged and the cursor rests on the last row.
C20_Witness ==
    /\ TagTurn
    /\ Len(s.data) = MaxRows
    /\ Prefix(old, MaxRows - 1)
    /\ Prefix(s, MaxRows)
    /\ s.cursor = MaxRows - 1

\* C20 witness of the first tag command: the cursor moved from row 0 to the
\* untagged row 1.
C20_FirstStep ==
    /\ TagTurn
    /\ Len(s.data) >= 2
    /\ Prefix(old, 0)
    /\ Prefix(s, 1)
    /\ s.cursor = 1
    /\ At(s.data, 1).tag = None

====
